---- MODULE Spec2Model ----
(***************************************************************************)
(* reflex-clerk: the server-side Clerk session state (ClerkState), its     *)
(* process-wide key set / secret key / API client, and the operations      *)
(* that change them.                                                       *)
(*                                                                         *)
(* Python values are modelled as follows.  None is the record NoneV for    *)
(* object-valued fields (claims, user, auth_error, the API client) and     *)
(* the string "None" for string-valued ones (secret keys, env values).     *)
(* A Clerk user id is a number in 1..NumSubjects; NoSub (0) is a token     *)
(* without a `sub` claim, and the user_id None that decoded.get('sub')     *)
(* gives for it.                                                           *)
(***************************************************************************)
EXTENDS Naturals, Sequences, FiniteSets, TLC

VARIABLES
    is_signed_in,   \* ClerkState.is_signed_in, per session
    auth_error,     \* ClerkState.auth_error, per session
    claims,         \* ClerkState.claims, per session
    user_id,        \* ClerkState.user_id, per session
    user,           \* ClerkState.user, per session
    jwt_keys,       \* ClerkState._jwt_public_keys (class variable)
    secret_key,     \* ClerkState._secret_key (class variable)
    api_client,     \* ClerkState._clerk_api_client (class variable)
    fetch_user_flag,\* ClerkState._fetch_user (class variable)
    env,            \* os.environ, as far as the code reads it
    sync,           \* the browser side: ClerkSessionSynchronizer and its events
    threads,        \* threads evaluating ClerkState.jwt_public_keys line by line
    last            \* the operation that produced this state, and how it ended

vars == <<is_signed_in, auth_error, claims, user_id, user,
          jwt_keys, secret_key, api_client, fetch_user_flag, env, sync, threads, last>>

sessionVars == <<is_signed_in, auth_error, claims, user_id, user>>
classVars == <<jwt_keys, secret_key, api_client, fetch_user_flag>>

----------------------------------------------------------------------------
(* Bounds and value domains *)

NumSubjects == 2

\* How many changes of isSignedIn the browser observes in one run.
MaxChanges == 3

Sessions == {"s1", "s2"}

Subs == 1..NumSubjects

NoSub == 0

NoneV == [kind |-> "None"]

NoneS == "None"

Kids == {"K1", "K2"}

\* The key list of CLERK_JWT_PUBLIC_KEYS and the one the /jwks endpoint serves.
StaticKeys == <<[kid |-> "K1"]>>

RemoteKeys == <<[kid |-> "K2"]>>

\* A session token: either unparseable bytes, or a JWT with the key id of
\* its header, the key that really signed it, and its payload (sub, exp).
MalformedToken == [kind |-> "garbage"]

Jwt(k, sb, u, e) ==
    [kind |-> "jwt", kid |-> k, signed_by |-> sb, sub |-> u, expired |-> e]

\* The tokens presented: garbage, the tokens each key signed (any subject or
\* none, expired or not) and, for each key id, a token another key signed.
Tokens ==
    {MalformedToken}
    \cup { Jwt(k, k, u, e) : k \in Kids, u \in {NoSub} \cup Subs, e \in BOOLEAN }
    \cup { Jwt(k, sb, 1, FALSE) : k \in Kids, sb \in Kids }

\* What the Clerk backend can answer to one request.
Ok200 == [status |-> 200, body |-> "json"]

Responses ==
    { Ok200,
      [status |-> 200, body |-> "garbage"],
      [status |-> 304, body |-> "json"],
      [status |-> 404, body |-> "json"] }

\* The answers to choose among for a call the handler makes; one stands for
\* all of them when the call is not made.
AnswersFor(call, calls) ==
    IF \E i \in 1..Len(calls) : calls[i] = call THEN Responses ELSE {Ok200}

Unauthorized == [status |-> 401, body |-> "json"]

\* A request whose header is "Bearer None" is answered 401 whatever else
\* the backend would have answered.
Answer(client, resp) ==
    IF client.secret_key = NoneS THEN Unauthorized ELSE resp

\* CLERK_SECRET_KEY and CLERK_JWT_PUBLIC_KEYS are fixed for the process;
\* CLERK_PUBLISHABLE_KEY is read afresh by every ClerkProvider.create.
Envs ==
    [ CLERK_SECRET_KEY : {NoneS, "sk_env"},
      CLERK_JWT_PUBLIC_KEYS : {FALSE, TRUE} ]

PublishableEnvs == {NoneS, "pk_env"}

PropsSet ==
    [ secret_key : {NoneS, "sk_a"},
      publishable_key : {NoneS, "pk_a"} ]

NoToken == [kind |-> "none"]

\* The arguments of one ClerkProvider.create call: its props and what
\* os.environ holds for CLERK_PUBLISHABLE_KEY at the time.
CreateArgs(props, pk_env) ==
    [kind |-> "create", props |-> props, pk_env |-> pk_env]

----------------------------------------------------------------------------
(* The session and class state as records, for the operators below *)

SessionOf(s) ==
    [ is_signed_in |-> is_signed_in[s], auth_error |-> auth_error[s],
      claims |-> claims[s], user_id |-> user_id[s], user |-> user[s] ]

ClassState ==
    [ jwt_keys |-> jwt_keys, secret_key |-> secret_key,
      api_client |-> api_client, fetch_user |-> fetch_user_flag ]

InitSession ==
    [ is_signed_in |-> FALSE, auth_error |-> NoneV, claims |-> NoneV,
      user_id |-> NoSub, user |-> NoneV ]

InitClass ==
    [ jwt_keys |-> <<>>, secret_key |-> NoneS,
      api_client |-> NoneV, fetch_user |-> TRUE ]

----------------------------------------------------------------------------
(* ClerkAPIClient *)

\* ClerkAPIClient._handle_response: "ok" when a parsed model is returned,
\* otherwise the exception raised.
HandleResponse(resp) ==
    IF resp.status >= 400 THEN "HTTPError"
    ELSE IF resp.body = "json" THEN "ok"
    ELSE "ValueError"

\* clerk_client.get_client / ClerkAPIClient.__init__: the client keeps the
\* secret key it was built with in its Authorization header.
get_client(sk) == [kind |-> "ClerkAPIClient", secret_key |-> sk]

----------------------------------------------------------------------------
(* The class properties of ClerkState *)

\* ClerkState.secret_key: the value of _secret_key after the access (the
\* property returns that same value).
SecretKeyProp(c, e) ==
    IF c.secret_key = NoneS /\ e.CLERK_SECRET_KEY # NoneS
    THEN e.CLERK_SECRET_KEY
    ELSE c.secret_key

\* ClerkState.clerk_api_client: the class state after the access.
ClerkApiClientProp(c, e) ==
    IF c.api_client = NoneV
    THEN LET sk == SecretKeyProp(c, e)
         IN [c EXCEPT !.secret_key = sk, !.api_client = get_client(sk)]
    ELSE c

\* The value assigned from CLERK_JWT_PUBLIC_KEYS, when it is set.
EnvKeys(c, e) ==
    IF e.CLERK_JWT_PUBLIC_KEYS THEN StaticKeys ELSE c.jwt_keys

JwtPublicKeysProp_AlwaysRefresh(c, e, resp) ==
    LET c1 == [c EXCEPT !.jwt_keys = EnvKeys(c, e)]
        c2 == [c1 EXCEPT !.secret_key = SecretKeyProp(c1, e)]
    IN IF c2.secret_key = NoneS
       THEN [cls |-> c2, raised |-> NoneS, calls |-> <<>>]
       ELSE LET c3 == ClerkApiClientProp(c2, e)
                r == HandleResponse(Answer(c3.api_client, resp))
            IN IF r = "ok"
               THEN [cls |-> [c3 EXCEPT !.jwt_keys = RemoteKeys],
                     raised |-> NoneS, calls |-> <<"get_jwks">>]
               ELSE [cls |-> c3, raised |-> r, calls |-> <<"get_jwks">>]

\* ClerkState.jwt_public_keys: the class state after the access, the
\* exception it raised (NoneS: it returned _jwt_public_keys) and the remote
\* calls it made.  resp is what the backend answers to GET /jwks.
JwtPublicKeysProp(c, e, resp) ==
    IF c.jwt_keys # <<>>
    THEN [cls |-> c, raised |-> NoneS, calls |-> <<>>]
    ELSE LET c1 == [c EXCEPT !.jwt_keys = EnvKeys(c, e)]
             c2 == [c1 EXCEPT !.secret_key = SecretKeyProp(c1, e)]
         IN IF c2.secret_key = NoneS
            THEN [cls |-> c2, raised |-> NoneS, calls |-> <<>>]
            ELSE LET c3 == ClerkApiClientProp(c2, e)
                     r == HandleResponse(Answer(c3.api_client, resp))
                 IN IF r = "ok"
                    THEN [cls |-> [c3 EXCEPT !.jwt_keys = RemoteKeys],
                          raised |-> NoneS, calls |-> <<"get_jwks">>]
                    ELSE [cls |-> c3, raised |-> r, calls |-> <<"get_jwks">>]

----------------------------------------------------------------------------
(* authlib's jwt.decode(token, {"keys": keys}) as ClerkState calls it *)

JoseErrors == {"DecodeError", "BadSignatureError"}

HasKid(keys, kid) == \E i \in 1..Len(keys) : keys[i].kid = kid

\* The token is parsed, the key named by its header is looked up in the
\* key set (a kid with no key is a ValueError, which is no JoseError) and
\* the signature is checked.  The claims are returned as decoded: nothing
\* here looks at `exp` (that is JWTClaims.validate, which is not called).
JwtDecode(t, keys) ==
    IF t.kind # "jwt" THEN [exc |-> "DecodeError", claims |-> NoneV]
    ELSE IF ~HasKid(keys, t.kid) THEN [exc |-> "ValueError", claims |-> NoneV]
    ELSE IF t.signed_by # t.kid
         THEN [exc |-> "BadSignatureError", claims |-> NoneV]
    ELSE [exc |-> NoneS,
          claims |-> [kind |-> "JWTClaims", sub |-> t.sub, expired |-> t.expired]]

----------------------------------------------------------------------------
(* The event handlers of ClerkState, as functions of the session state st, *)
(* the class state c, the environment e and the backend's answers.  Each   *)
(* gives the states after the call, the exception that left it (NoneS: it  *)
(* returned) and the remote calls it made.                                 *)

FetchUserRun_RevertsOnFailure(st, c, e, resp) ==
    IF st.user_id = NoSub
    THEN [st |-> st, cls |-> c, raised |-> NoneS, calls |-> <<>>]
    ELSE LET c1 == ClerkApiClientProp(c, e)
             r == HandleResponse(Answer(c1.api_client, resp))
         IN IF r = "ok"
            THEN [st |-> [st EXCEPT !.user = [kind |-> "User", id |-> st.user_id]],
                  cls |-> c1, raised |-> NoneS, calls |-> <<"get_user">>]
            ELSE [st |-> [st EXCEPT !.is_signed_in = FALSE, !.claims = NoneV],
                  cls |-> c1, raised |-> r, calls |-> <<"get_user">>]

FetchUserRun_ErrorToAuthError(st, c, e, resp) ==
    IF st.user_id = NoSub
    THEN [st |-> st, cls |-> c, raised |-> NoneS, calls |-> <<>>]
    ELSE LET c1 == ClerkApiClientProp(c, e)
             r == HandleResponse(Answer(c1.api_client, resp))
         IN IF r = "ok"
            THEN [st |-> [st EXCEPT !.user = [kind |-> "User", id |-> st.user_id]],
                  cls |-> c1, raised |-> NoneS, calls |-> <<"get_user">>]
            ELSE [st |-> [st EXCEPT !.auth_error = [kind |-> r]],
                  cls |-> c1, raised |-> r, calls |-> <<"get_user">>]

FetchUserRun_StoresOnFailure(st, c, e, resp) ==
    IF st.user_id = NoSub
    THEN [st |-> st, cls |-> c, raised |-> NoneS, calls |-> <<>>]
    ELSE LET c1 == ClerkApiClientProp(c, e)
             r == HandleResponse(Answer(c1.api_client, resp))
         IN [st |-> [st EXCEPT !.user = [kind |-> "User", id |-> st.user_id]],
             cls |-> c1, raised |-> IF r = "ok" THEN NoneS ELSE r,
             calls |-> <<"get_user">>]

\* ClerkState.fetch_user.  The record the backend returns for GET
\* /users/{id} is the one with that id.
FetchUserRun(st, c, e, resp) ==
    IF st.user_id = NoSub
    THEN [st |-> st, cls |-> c, raised |-> NoneS, calls |-> <<>>]
    ELSE LET c1 == ClerkApiClientProp(c, e)
             r == HandleResponse(Answer(c1.api_client, resp))
         IN IF r = "ok"
            THEN [st |-> [st EXCEPT !.user = [kind |-> "User", id |-> st.user_id]],
                  cls |-> c1, raised |-> NoneS, calls |-> <<"get_user">>]
            ELSE [st |-> st, cls |-> c1, raised |-> r, calls |-> <<"get_user">>]

KeysMissing_Never(c) == FALSE

\* The guard of set_clerk_session: no key has been cached.
KeysMissing(c) == c.jwt_keys = <<>>

OnNoKeys_RecordsError(st) ==
    [st EXCEPT !.auth_error = [kind |-> "NoKeysConfigured"]]

\* What set_clerk_session does to the session when the guard holds: it
\* prints a message and returns.
OnNoKeys(st) == st

OnVerified_NoUserId(st, decoded) ==
    [st EXCEPT !.is_signed_in = TRUE, !.claims = decoded]

\* The assignments of set_clerk_session after jwt.decode returned.
OnVerified(st, decoded) ==
    [st EXCEPT !.is_signed_in = TRUE, !.claims = decoded, !.user_id = decoded.sub]

OnJoseError_SignsIn(st, exc) ==
    [st EXCEPT !.auth_error = [kind |-> exc], !.is_signed_in = TRUE]

\* The handler of `except JoseError as e`.
OnJoseError(st, exc) ==
    [st EXCEPT !.auth_error = [kind |-> exc]]

FetchOnAuth_Always(c) == TRUE

\* The test `if self._fetch_user` of set_clerk_session.
FetchOnAuth(c) == c.fetch_user

\* ClerkState.set_clerk_session.  rj answers GET /jwks, ru GET /users/{id}.
SetClerkSessionRun(st, c, e, t, rj, ru) ==
    IF KeysMissing(c)
    THEN [st |-> OnNoKeys(st), cls |-> c, outcome |-> "skipped",
          raised |-> NoneS, calls |-> <<>>]
    ELSE LET kp == JwtPublicKeysProp(c, e, rj)
             d == JwtDecode(t, kp.cls.jwt_keys)
         IN IF kp.raised # NoneS
            THEN [st |-> st, cls |-> kp.cls, outcome |-> "raised",
                  raised |-> kp.raised, calls |-> kp.calls]
            ELSE IF d.exc = NoneS
            THEN LET st1 == OnVerified(st, d.claims)
                     f == FetchUserRun(st1, kp.cls, e, ru)
                 IN IF FetchOnAuth(kp.cls)
                    THEN [st |-> f.st, cls |-> f.cls, outcome |-> "verified",
                          raised |-> f.raised, calls |-> kp.calls \o f.calls]
                    ELSE [st |-> st1, cls |-> kp.cls, outcome |-> "verified",
                          raised |-> NoneS, calls |-> kp.calls]
            ELSE IF d.exc \in JoseErrors
            THEN [st |-> OnJoseError(st, d.exc), cls |-> kp.cls,
                  outcome |-> "jose_error", raised |-> NoneS, calls |-> kp.calls]
            ELSE [st |-> st, cls |-> kp.cls, outcome |-> "raised",
                  raised |-> d.exc, calls |-> kp.calls]

ClearClerkSessionRun_KeepsSignedIn(st) ==
    [st EXCEPT !.claims = NoneV, !.auth_error = NoneV]

ClearClerkSessionRun_KeepsError(st) ==
    [st EXCEPT !.is_signed_in = FALSE, !.claims = NoneV]

ClearClerkSessionRun_ClearsUser(st) ==
    [st EXCEPT !.is_signed_in = FALSE, !.claims = NoneV, !.auth_error = NoneV,
               !.user = NoneV, !.user_id = NoSub]

ClearClerkSessionRun_SecondClearsUser(st) ==
    IF st.is_signed_in \/ st.claims # NoneV \/ st.auth_error # NoneV
    THEN [st EXCEPT !.is_signed_in = FALSE, !.claims = NoneV, !.auth_error = NoneV]
    ELSE [st EXCEPT !.user = NoneV, !.user_id = NoSub]

\* ClerkState.clear_clerk_session.
ClearClerkSessionRun(st) ==
    [st EXCEPT !.is_signed_in = FALSE, !.claims = NoneV, !.auth_error = NoneV]

ClearClerkAuthErrorRun_AlsoSignsOut(st) ==
    [st EXCEPT !.auth_error = NoneV, !.is_signed_in = FALSE, !.claims = NoneV]

\* ClerkState.clear_clerk_auth_error.
ClearClerkAuthErrorRun(st) ==
    [st EXCEPT !.auth_error = NoneV]

CreateRun_NoSecretCheck(c, e, pk_env, props) ==
    LET c1 == IF props.secret_key # NoneS
              THEN [c EXCEPT !.secret_key = props.secret_key]
              ELSE c
        p1 == IF props.secret_key # NoneS
              THEN [props EXCEPT !.secret_key = "deleted"]
              ELSE props
        c2 == [c1 EXCEPT !.secret_key = SecretKeyProp(c1, e)]
        p2 == IF p1.publishable_key = NoneS
              THEN [p1 EXCEPT !.publishable_key = pk_env]
              ELSE p1
    IN IF p2.publishable_key = NoneS
       THEN [cls |-> c2, raised |-> "ValueError", ret |-> NoneV]
       ELSE [cls |-> c2, raised |-> NoneS,
             ret |-> [kind |-> "ClerkProvider", props |-> p2]]

CreateRun_KeepsSecretProp(c, e, pk_env, props) ==
    LET c1 == IF props.secret_key # NoneS
              THEN [c EXCEPT !.secret_key = props.secret_key]
              ELSE c
        c2 == [c1 EXCEPT !.secret_key = SecretKeyProp(c1, e)]
        p2 == IF props.publishable_key = NoneS
              THEN [props EXCEPT !.publishable_key = pk_env]
              ELSE props
    IN IF c2.secret_key = NoneS
       THEN [cls |-> c2, raised |-> "ValueError", ret |-> NoneV]
       ELSE IF p2.publishable_key = NoneS
       THEN [cls |-> c2, raised |-> "ValueError", ret |-> NoneV]
       ELSE [cls |-> c2, raised |-> NoneS,
             ret |-> [kind |-> "ClerkProvider", props |-> p2]]

\* ClerkProvider.create: the class state after the call, the exception it
\* raised, and the props handed on to the rendered component.
CreateRun(c, e, pk_env, props) ==
    LET c1 == IF props.secret_key # NoneS
              THEN [c EXCEPT !.secret_key = props.secret_key]
              ELSE c
        p1 == IF props.secret_key # NoneS
              THEN [props EXCEPT !.secret_key = "deleted"]
              ELSE props
        c2 == [c1 EXCEPT !.secret_key = SecretKeyProp(c1, e)]
        p2 == IF p1.publishable_key = NoneS
              THEN [p1 EXCEPT !.publishable_key = pk_env]
              ELSE p1
    IN IF c2.secret_key = NoneS
       THEN [cls |-> c2, raised |-> "ValueError", ret |-> NoneV]
       ELSE IF p2.publishable_key = NoneS
       THEN [cls |-> c2, raised |-> "ValueError", ret |-> NoneV]
       ELSE [cls |-> c2, raised |-> NoneS,
             ret |-> [kind |-> "ClerkProvider", props |-> p2]]

----------------------------------------------------------------------------
(* ClerkState.jwt_public_keys evaluated by several threads, one line at a  *)
(* time.  pc is the line a thread is about to run: "test" the emptiness    *)
(* test of line 131, "static" lines 132-134, "remote" the condition of     *)
(* line 135, "wait" the GET /jwks of line 136 in flight, "return" line     *)
(* 137.  status is the status of the answer the thread received (0: none), *)
(* raised the exception that ended its last evaluation, ret the list its   *)
(* last evaluation returned and returned whether it has returned one.      *)

Threads == {"t1", "t2"}

NoStatus == 0

InitThread ==
    [ pc |-> "test", status |-> NoStatus, raised |-> NoneS,
      ret |-> <<>>, returned |-> FALSE ]

InitThreads == [t \in Threads |-> InitThread]

\* An assignment to cls._jwt_public_keys binds the name to the new list,
\* whatever the old one held.
Rebind_InPlace(old, new) == old \o new

Rebind(old, new) == new

----------------------------------------------------------------------------
(* ClerkSessionSynchronizer: the React component of add_custom_code.  Its  *)
(* effect runs when isSignedIn changes (isLoaded and addEvents being set): *)
(* signed in, it calls getToken() and sends set_clerk_session when the     *)
(* promise resolves; signed out, it sends clear_clerk_session at once.     *)
(* sync.changes counts the changes observed, sync.pending holds the        *)
(* changes whose getToken() has not resolved, sync.queue the events sent   *)
(* and not yet handled, sync.log the change each event sent belongs to.    *)

InitSync ==
    [ isSignedIn |-> FALSE, changes |-> 0, pending |-> {},
      queue |-> <<>>, log |-> <<>> ]

\* What getToken() resolves to: the session token of the signed-in visitor,
\* signed by one of Clerk's keys, or nothing usable.
SessionTokens ==
    { Jwt(k, k, 1, FALSE) : k \in Kids } \cup {MalformedToken}

\* addEvents([Event(name, {token})]) for the effect run of change n.
AddEvents(sy, name, n, t) ==
    [sy EXCEPT !.queue = Append(@, [op |-> name, n |-> n, token |-> t]),
               !.log = Append(@, n)]

\* The effect body for change n with the new value of isSignedIn.
EffectRun(sy, n, signedIn) ==
    IF signedIn
    THEN [sy EXCEPT !.pending = @ \cup {n}]
    ELSE AddEvents(sy, "clear_clerk_session", n, NoToken)

\* getToken().then(token => addEvents(...)) of change n.
TokenThen(sy, n, t) ==
    AddEvents([sy EXCEPT !.pending = @ \ {n}], "set_clerk_session", n, t)

----------------------------------------------------------------------------
(* The state machine *)

Store(s, st) ==
    /\ is_signed_in' = [is_signed_in EXCEPT ![s] = st.is_signed_in]
    /\ auth_error' = [auth_error EXCEPT ![s] = st.auth_error]
    /\ claims' = [claims EXCEPT ![s] = st.claims]
    /\ user_id' = [user_id EXCEPT ![s] = st.user_id]
    /\ user' = [user EXCEPT ![s] = st.user]

StoreClass(c) ==
    /\ jwt_keys' = c.jwt_keys
    /\ secret_key' = c.secret_key
    /\ api_client' = c.api_client
    /\ fetch_user_flag' = c.fetch_user

\* The record of an event: `again` tells that the event before it was the
\* same event on the same session.
Op(op, s, t, outcome, raised, calls, ret) ==
    [ op |-> op, s |-> s, token |-> t, outcome |-> outcome,
      raised |-> raised, calls |-> calls, ret |-> ret,
      again |-> (last.op = op /\ last.s = s) ]

Init ==
    /\ is_signed_in = [s \in Sessions |-> InitSession.is_signed_in]
    /\ auth_error = [s \in Sessions |-> InitSession.auth_error]
    /\ claims = [s \in Sessions |-> InitSession.claims]
    /\ user_id = [s \in Sessions |-> InitSession.user_id]
    /\ user = [s \in Sessions |-> InitSession.user]
    /\ jwt_keys = InitClass.jwt_keys
    /\ secret_key = InitClass.secret_key
    /\ api_client = InitClass.api_client
    /\ fetch_user_flag = InitClass.fetch_user
    /\ env \in Envs
    /\ sync = InitSync
    /\ threads = InitThreads
    /\ last = [ op |-> "init", s |-> "-", token |-> NoToken, outcome |-> "-",
                raised |-> NoneS, calls |-> <<>>, ret |-> NoneV, again |-> FALSE ]

\* The server handles a set_clerk_session event with token t.
HandleSetClerkSession(s, t) ==
      LET made == SetClerkSessionRun(SessionOf(s), ClassState, env, t, Ok200, Ok200).calls
      IN \E rj \in AnswersFor("get_jwks", made), ru \in AnswersFor("get_user", made) :
        LET r == SetClerkSessionRun(SessionOf(s), ClassState, env, t, rj, ru)
        IN /\ Store(s, r.st)
           /\ StoreClass(r.cls)
           /\ last' = Op("set_clerk_session", s, t, r.outcome, r.raised, r.calls, NoneV)
           /\ UNCHANGED env

\* The server handles a clear_clerk_session event.
HandleClearClerkSession(s) ==
    /\ Store(s, ClearClerkSessionRun(SessionOf(s)))
    /\ last' = Op("clear_clerk_session", s, NoToken, "-", NoneS, <<>>, NoneV)
    /\ UNCHANGED <<classVars, env>>

\* The set_clerk_session event arrives, with any token.
SetClerkSession(s) ==
    \E t \in Tokens : HandleSetClerkSession(s, t) /\ UNCHANGED <<sync, threads>>

\* The clear_clerk_session event arrives.
ClearClerkSession(s) ==
    HandleClearClerkSession(s) /\ UNCHANGED <<sync, threads>>

ClearClerkAuthError(s) ==
    /\ Store(s, ClearClerkAuthErrorRun(SessionOf(s)))
    /\ last' = Op("clear_clerk_auth_error", s, NoToken, "-", NoneS, <<>>, NoneV)
    /\ UNCHANGED <<classVars, env, sync, threads>>

\* The fetch_user event sent on its own.
FetchUser(s) ==
    \E ru \in AnswersFor("get_user",
                           FetchUserRun(SessionOf(s), ClassState, env, Ok200).calls) :
        LET r == FetchUserRun(SessionOf(s), ClassState, env, ru)
        IN /\ Store(s, r.st)
           /\ StoreClass(r.cls)
           /\ last' = Op("fetch_user", s, NoToken, "-", r.raised, r.calls, NoneV)
           /\ UNCHANGED <<env, sync, threads>>

SetFetchUserOnAuth ==
    \E b \in BOOLEAN :
        /\ fetch_user_flag' = b
        /\ last' = Op("set_fetch_user_on_auth", "-", NoToken, "-", NoneS, <<>>, NoneV)
        /\ UNCHANGED <<sessionVars, jwt_keys, secret_key, api_client, env, sync, threads>>

\* A read of the class property ClerkState.jwt_public_keys.
GetJwtPublicKeys ==
    \E rj \in AnswersFor("get_jwks",
                           JwtPublicKeysProp(ClassState, env, Ok200).calls) :
        LET r == JwtPublicKeysProp(ClassState, env, rj)
        IN /\ StoreClass(r.cls)
           /\ last' = Op("jwt_public_keys", "-", NoToken, "-", r.raised, r.calls, NoneV)
           /\ UNCHANGED <<sessionVars, env, sync, threads>>

\* A page function builds its component tree with clerk_provider(...).
Create ==
    \E props \in PropsSet, pk_env \in PublishableEnvs :
        LET r == CreateRun(ClassState, env, pk_env, props)
        IN /\ StoreClass(r.cls)
           /\ last' = Op("create", "-", CreateArgs(props, pk_env), "-",
                         r.raised, <<>>, r.ret)
           /\ UNCHANGED <<sessionVars, env, sync, threads>>

\* One visitor session is driven; the other stays as constructed.
Driven == {"s1"}

Next ==
    \/ \E s \in Driven : SetClerkSession(s)
    \/ \E s \in Driven : ClearClerkSession(s)
    \/ \E s \in Driven : ClearClerkAuthError(s)
    \/ \E s \in Driven : FetchUser(s)
    \/ SetFetchUserOnAuth
    \/ GetJwtPublicKeys
    \/ Create

Spec == Init /\ [][Next]_vars

----------------------------------------------------------------------------
(* The session driven by the synchronizer of one browser *)

\* Clerk's isSignedIn changes in the browser and the effect runs.
BrowserChange ==
    /\ sync.changes < MaxChanges
    /\ sync' = EffectRun([sync EXCEPT !.isSignedIn = ~@, !.changes = @ + 1],
                         sync.changes + 1, ~sync.isSignedIn)
    /\ UNCHANGED <<sessionVars, classVars, env, threads, last>>

\* A getToken() promise resolves and its callback sends the event.
TokenResolved ==
    \E n \in sync.pending, t \in SessionTokens :
        /\ sync' = TokenThen(sync, n, t)
        /\ UNCHANGED <<sessionVars, classVars, env, threads, last>>

\* The server handles the event at the head of the queue.
Deliver ==
    /\ sync.queue # <<>>
    /\ sync' = [sync EXCEPT !.queue = Tail(@)]
    /\ IF Head(sync.queue).op = "set_clerk_session"
       THEN HandleSetClerkSession("s1", Head(sync.queue).token)
       ELSE HandleClearClerkSession("s1")
    /\ UNCHANGED threads

SyncNext ==
    \/ BrowserChange
    \/ TokenResolved
    \/ Deliver
    \/ GetJwtPublicKeys

SyncSpec == Init /\ [][SyncNext]_vars

----------------------------------------------------------------------------
(* The key-set cache read by concurrent threads *)

\* Line 131: `if not cls._jwt_public_keys`.
TestEmpty(t) ==
    /\ threads[t].pc = "test"
    /\ threads' = [threads EXCEPT
                      ![t] = [InitThread EXCEPT
                                !.pc = IF jwt_keys = <<>> THEN "static"
                                                          ELSE "return"]]
    /\ UNCHANGED <<sessionVars, classVars, env, sync, last>>

\* Lines 132-134: the static list of CLERK_JWT_PUBLIC_KEYS is assigned.
StaticLine(t) ==
    /\ threads[t].pc = "static"
    /\ jwt_keys' = IF env.CLERK_JWT_PUBLIC_KEYS
                   THEN Rebind(jwt_keys, StaticKeys)
                   ELSE jwt_keys
    /\ threads' = [threads EXCEPT ![t].pc = "remote"]
    /\ UNCHANGED <<sessionVars, secret_key, api_client, fetch_user_flag,
                   env, sync, last>>

\* Line 135 and the call of line 136: with a secret key the client is
\* taken (and built when there is none) and GET /jwks is sent.
RemoteLine(t) ==
    /\ threads[t].pc = "remote"
    /\ LET sk == SecretKeyProp(ClassState, env)
       IN IF sk = NoneS
          THEN /\ threads' = [threads EXCEPT ![t].pc = "return"]
               /\ UNCHANGED classVars
          ELSE /\ threads' = [threads EXCEPT ![t].pc = "wait"]
               /\ StoreClass(ClerkApiClientProp(
                                [ClassState EXCEPT !.secret_key = sk], env))
    /\ UNCHANGED <<sessionVars, env, sync, last>>

\* Line 136: the answer to GET /jwks arrives; _handle_response raises or
\* the keys of the answer are assigned.
JwksAnswered(t) ==
    /\ threads[t].pc = "wait"
    /\ \E resp \in Responses :
         LET a == Answer(api_client, resp)
             r == HandleResponse(a)
         IN IF r = "ok"
            THEN /\ jwt_keys' = Rebind(jwt_keys, RemoteKeys)
                 /\ threads' = [threads EXCEPT ![t].pc = "return",
                                               ![t].status = a.status]
            ELSE /\ jwt_keys' = jwt_keys
                 /\ threads' = [threads EXCEPT ![t].pc = "test",
                                               ![t].status = a.status,
                                               ![t].raised = r]
    /\ UNCHANGED <<sessionVars, secret_key, api_client, fetch_user_flag,
                   env, sync, last>>

\* Line 137: `return cls._jwt_public_keys`.
ReturnLine(t) ==
    /\ threads[t].pc = "return"
    /\ threads' = [threads EXCEPT ![t].pc = "test",
                                  ![t].ret = jwt_keys,
                                  ![t].returned = TRUE]
    /\ UNCHANGED <<sessionVars, classVars, env, sync, last>>

KeyNext ==
    \E t \in Threads :
        \/ TestEmpty(t)
        \/ StaticLine(t)
        \/ RemoteLine(t)
        \/ JwksAnswered(t)
        \/ ReturnLine(t)

KeySpec == Init /\ [][KeyNext]_vars

----------------------------------------------------------------------------
(* Two visitor sessions of one process *)

\* The tokens the two sessions present: garbage, a token of subject 1
\* signed by each key, one without a subject and one another key signed.
PairTokens ==
    {MalformedToken, Jwt("K1", "K2", 1, FALSE), Jwt("K1", "K1", NoSub, FALSE)}
    \cup { Jwt(k, k, 1, FALSE) : k \in Kids }

PairSetClerkSession(s) ==
    \E t \in PairTokens : HandleSetClerkSession(s, t) /\ UNCHANGED <<sync, threads>>

PairNext ==
    \/ \E s \in Sessions : PairSetClerkSession(s)
    \/ \E s \in Sessions : ClearClerkSession(s)
    \/ SetFetchUserOnAuth
    \/ GetJwtPublicKeys

PairSpec == Init /\ [][PairNext]_vars

----------------------------------------------------------------------------
(* Properties of the session operations *)

\* The decoded claims of a token jwt.decode accepts.
ClaimsOf(t) == [kind |-> "JWTClaims", sub |-> t.sub, expired |-> t.expired]

\* The token is a JWT whose header names a key of the set and which that
\* key signed.
SignedByKeyIn(t, keys) ==
    t.kind = "jwt" /\ HasKid(keys, t.kid) /\ t.signed_by = t.kid

Presented == last.op = "set_clerk_session"

\* C1: fail-closed.  A set_clerk_session call made while the process-wide
\* key set is empty never signs a session in and stores neither claims nor
\* a user_id: is_signed_in stays false and claims and user_id keep their
\* values, for every token.
C1_FailClosed ==
    [][ (jwt_keys = <<>> /\ last'.op = "set_clerk_session")
        => \A s \in Sessions :
             /\ ~is_signed_in'[s]
             /\ claims'[s] = claims[s]
             /\ user_id'[s] = user_id[s] ]_vars

\* A token that CLERK_JWT_PUBLIC_KEYS' key signed was presented while the
\* key set was still empty, and was skipped.
C1_Witness ==
    /\ Presented /\ last.outcome = "skipped"
    /\ jwt_keys = <<>> /\ env.CLERK_JWT_PUBLIC_KEYS
    /\ SignedByKeyIn(last.token, StaticKeys)

\* C2 (as claimed): when a token is presented and its verification fails
\* with a JoseError, the session ends signed out, whatever it was before:
\* is_signed_in false, claims None, auth_error the error.
C2_FailureSignsOut ==
    (Presented /\ last.outcome = "jose_error")
        => /\ ~is_signed_in[last.s]
           /\ claims[last.s] = NoneV
           /\ auth_error[last.s] # NoneV

C4_ValidTokenSignsIn ==
    [][ (last'.op = "set_clerk_session" /\ SignedByKeyIn(last'.token, jwt_keys))
        => /\ is_signed_in'[last'.s]
           /\ claims'[last'.s] = ClaimsOf(last'.token)
           /\ user_id'[last'.s] = last'.token.sub ]_vars

\* A valid token was verified in a session that held an error from an
\* earlier, failed presentation.
C4_Witness ==
    /\ Presented /\ last.outcome = "verified"
    /\ SignedByKeyIn(last.token, jwt_keys)
    /\ last.token.sub \in Subs
    /\ auth_error[last.s] # NoneV
    /\ is_signed_in[last.s]

\* C5 (as claimed): after a token is verified, auth_error is None.
C5_SuccessClearsError ==
    (Presented /\ last.outcome = "verified") => auth_error[last.s] = NoneV

\* C6 (as claimed): a presented token whose `exp` is in the past (and that
\* a key of the key set signed, so that only its expiry is wrong) is
\* rejected: the session is signed out and auth_error holds an error.
C6_ExpiredRejected ==
    (Presented /\ SignedByKeyIn(last.token, jwt_keys) /\ last.token.expired)
        => /\ ~is_signed_in[last.s]
           /\ auth_error[last.s] # NoneV

\* C7: in every reachable state, a signed-in session has claims.
C7_SignedInHasClaims ==
    \A s \in Sessions : is_signed_in[s] => claims[s] # NoneV

\* A signed-in session after an event other than the sign-in itself.
C7_Witness ==
    /\ is_signed_in["s1"] /\ claims["s1"] # NoneV
    /\ last.op \in {"fetch_user", "clear_clerk_auth_error"}

\* C8: is_signed_in goes from false to true only in a set_clerk_session
\* call on that session whose token passed jwt.decode against the key set
\* (a JWT signed by the key of the set its header names).
C8_OnlyVerifiedSignsIn ==
    [][ \A s \in Sessions :
          (~is_signed_in[s] /\ is_signed_in'[s])
            => /\ last'.op = "set_clerk_session" /\ last'.s = s
               /\ last'.outcome = "verified"
               /\ SignedByKeyIn(last'.token, jwt_keys) ]_vars

\* A session signed in by a verified token although the user fetch raised.
C8_Witness ==
    /\ Presented /\ last.outcome = "verified" /\ last.raised = "HTTPError"
    /\ is_signed_in[last.s]

\* C9: after clear_clerk_session the session is signed out: is_signed_in
\* false, claims None, auth_error None.
C9_ClearSignsOut ==
    last.op = "clear_clerk_session"
        => /\ ~is_signed_in[last.s]
           /\ claims[last.s] = NoneV
           /\ auth_error[last.s] = NoneV

\* clear_clerk_session has run on a session that had been signed in (its
\* user_id is still there).
C9_Witness ==
    /\ last.op = "clear_clerk_session"
    /\ user_id[last.s] \in Subs /\ user[last.s] = NoneV
    /\ ~is_signed_in[last.s]

\* C10: clear_clerk_session changes neither user nor user_id, nor the key
\* set, the secret key, the API client or the fetch toggle.
C10_ClearKeepsUser ==
    [][ last'.op = "clear_clerk_session"
        => /\ user' = user /\ user_id' = user_id
           /\ UNCHANGED classVars ]_vars

\* clear_clerk_session has run on a session with a fetched user record.
C10_Witness ==
    /\ last.op = "clear_clerk_session"
    /\ user[last.s] # NoneV /\ user_id[last.s] \in Subs
    /\ claims[last.s] = NoneV

Called(call) == \E i \in 1..Len(last.calls) : last.calls[i] = call

\* C11: idempotent withdraw.  A clear_clerk_session that directly follows a
\* clear_clerk_session on the same session changes nothing: every field of
\* the session (and of the class) is as the first call left it.
C11_ClearTwice ==
    [][ (last'.op = "clear_clerk_session" /\ last'.again)
        => UNCHANGED <<sessionVars, classVars>> ]_vars

\* clear_clerk_session has run twice in a row on a session that keeps a
\* user record and a user_id from its sign-in.
C11_Witness ==
    /\ last.op = "clear_clerk_session" /\ last.again
    /\ user[last.s] # NoneV /\ user_id[last.s] \in Subs
    /\ ~is_signed_in[last.s] /\ claims[last.s] = NoneV /\ auth_error[last.s] = NoneV

\* C12: clear_clerk_auth_error sets auth_error to None and changes nothing
\* else: is_signed_in, claims, user_id, user, the key set, the secret key,
\* the API client and the fetch toggle keep their values.
C12_ClearErrorOnly ==
    [][ last'.op = "clear_clerk_auth_error"
        => /\ auth_error'[last'.s] = NoneV
           /\ \A s \in Sessions \ {last'.s} : auth_error'[s] = auth_error[s]
           /\ UNCHANGED <<is_signed_in, claims, user_id, user, classVars>> ]_vars

\* clear_clerk_auth_error has run on a signed-in session with a user record.
C12_Witness ==
    /\ last.op = "clear_clerk_auth_error"
    /\ is_signed_in[last.s] /\ claims[last.s] # NoneV /\ user[last.s] # NoneV
    /\ auth_error[last.s] = NoneV

\* C13: enrichment does not gate sign-in.  When a token is verified with
\* fetch-on-auth enabled, the session is signed in with the token's claims
\* and user_id whether get_user succeeds or fails in any way; and a
\* fetch_user event, failing or not, changes neither is_signed_in nor claims.
C13_FetchDoesNotGate ==
    [][ /\ (last'.op = "set_clerk_session" /\ last'.outcome = "verified"
              /\ fetch_user_flag)
           => /\ is_signed_in'[last'.s]
              /\ claims'[last'.s] = ClaimsOf(last'.token)
              /\ user_id'[last'.s] = last'.token.sub
        /\ last'.op = "fetch_user"
           => /\ is_signed_in' = is_signed_in
              /\ claims' = claims ]_vars

\* A token was verified with fetch-on-auth enabled and the answer to
\* get_user could not be parsed: the session is signed in.
C13_Witness ==
    /\ Presented /\ last.outcome = "verified" /\ fetch_user_flag
    /\ Called("get_user") /\ last.raised = "ValueError"
    /\ is_signed_in[last.s] /\ claims[last.s] = ClaimsOf(last.token)

\* C14 (as claimed): set_clerk_session and fetch_user always return
\* normally; no failure leaves them as an exception.
C14_NothingRaised ==
    last.op \in {"set_clerk_session", "fetch_user"} => last.raised = NoneS

\* C15: when the user fetch of a verified token fails (not found, or any
\* other error of the call) and user was empty, the session is signed in,
\* user is still empty and auth_error is what it was before the call.
C15_FetchFailureLeavesUserEmpty ==
    [][ (last'.op = "set_clerk_session" /\ last'.outcome = "verified"
           /\ last'.raised # NoneS /\ user[last'.s] = NoneV)
        => /\ is_signed_in'[last'.s]
           /\ user'[last'.s] = NoneV
           /\ auth_error'[last'.s] = auth_error[last'.s] ]_vars

\* get_user was answered with an error status after a token was verified in
\* a session without user and without error.
C15_Witness ==
    /\ Presented /\ last.outcome = "verified"
    /\ Called("get_user") /\ last.raised = "HTTPError"
    /\ is_signed_in[last.s] /\ user[last.s] = NoneV /\ auth_error[last.s] = NoneV

\* C16: with fetch-on-auth disabled, set_clerk_session never calls get_user
\* and leaves user as it was; a verified token still sets is_signed_in,
\* claims and user_id.
C16_NoFetchWhenDisabled ==
    [][ (last'.op = "set_clerk_session" /\ ~fetch_user_flag)
        => /\ \A i \in 1..Len(last'.calls) : last'.calls[i] # "get_user"
           /\ user' = user
           /\ last'.outcome = "verified"
                => /\ is_signed_in'[last'.s]
                   /\ claims'[last'.s] = ClaimsOf(last'.token)
                   /\ user_id'[last'.s] = last'.token.sub ]_vars

\* A token for a subject was verified with fetch-on-auth disabled in a
\* session without user record.
C16_Witness ==
    /\ Presented /\ last.outcome = "verified" /\ ~fetch_user_flag
    /\ last.token.sub \in Subs /\ user_id[last.s] = last.token.sub
    /\ is_signed_in[last.s] /\ user[last.s] = NoneV /\ last.calls = <<>>

\* C17 (as claimed): a user record is stored only while fetch-on-auth is
\* enabled.
C17_UserOnlyWhenEnabled ==
    [][ \A s \in Sessions : user'[s] # user[s] => fetch_user_flag ]_vars

\* C17 (amended): user changes only in a set_clerk_session or fetch_user
\* call on that session whose get_user call returned a record;
\* set_clerk_session makes that call only with fetch-on-auth enabled, the
\* fetch_user event makes it whatever the toggle says.
C17_UserOnlyFromFetch ==
    [][ \A s \in Sessions :
          user'[s] # user[s]
            => /\ last'.op \in {"set_clerk_session", "fetch_user"}
               /\ last'.s = s
               /\ last'.raised = NoneS
               /\ \E i \in 1..Len(last'.calls) : last'.calls[i] = "get_user"
               /\ last'.op = "set_clerk_session" => fetch_user_flag ]_vars

\* The fetch_user event stored a record while fetch-on-auth was disabled.
C17_Witness ==
    /\ last.op = "fetch_user" /\ last.raised = NoneS /\ Called("get_user")
    /\ ~fetch_user_flag
    /\ user[last.s] = [kind |-> "User", id |-> user_id[last.s]]

----------------------------------------------------------------------------
(* Properties of the synchronizer *)

\* Nothing is in flight: every getToken() has resolved and every event sent
\* has been handled.
Quiescent == sync.pending = {} /\ sync.queue = <<>>

\* C18 (as claimed): when the browser has observed a sign-in and then a
\* sign-out, the server session ends signed out, however the token
\* retrieval, the verification and the user fetch were timed.
C18_SignOutWins ==
    (Quiescent /\ ~sync.isSignedIn /\ sync.changes >= 2)
        => ~is_signed_in["s1"]

\* C19 (as claimed): the events are sent once per observed change and in
\* the order of the changes: the changes of the events sent are increasing.
C19_EventsInOrder ==
    \A i, j \in 1..Len(sync.log) : i < j => sync.log[i] < sync.log[j]

----------------------------------------------------------------------------
(* Properties of the key cache *)

\* C20 (as claimed): with a secret key configured, a token that a key of
\* the configured sources signed is never skipped because the key cache is
\* still empty: the cache is filled and the token verified.
C20_ColdCacheFilled ==
    (Presented
       /\ (secret_key # NoneS \/ env.CLERK_SECRET_KEY # NoneS)
       /\ (SignedByKeyIn(last.token, RemoteKeys)
             \/ (env.CLERK_JWT_PUBLIC_KEYS /\ SignedByKeyIn(last.token, StaticKeys))))
        => last.outcome # "skipped"

\* C21 (as claimed): when the key cache has been built and
\* CLERK_JWT_PUBLIC_KEYS is set, the key set is the static list; the key
\* set is the remote one only when no static list is configured and a
\* secret key is.
C21_StaticFirst ==
    /\ (env.CLERK_JWT_PUBLIC_KEYS /\ jwt_keys # <<>>) => jwt_keys = StaticKeys
    /\ jwt_keys = RemoteKeys
         => (~env.CLERK_JWT_PUBLIC_KEYS /\ secret_key # NoneS)

\* C22 (as claimed): a read of jwt_public_keys never raises; when the
\* remote fetch fails it returns the static list or the empty list.
C22_FetchFailureNotRaised ==
    last.op = "jwt_public_keys" => last.raised = NoneS

\* The lists the two sources yield, and the empty list of a cold cache.
CompleteKeySets == {<<>>, StaticKeys, RemoteKeys}

\* C23: atomic refresh.  While threads evaluate jwt_public_keys line by
\* line and in any interleaving, the class variable holds, and every
\* evaluation returns, the empty list, the whole static list or the whole
\* remote list: never keys of both sources and never part of a list.
C23_AtomicRefresh ==
    /\ jwt_keys \in CompleteKeySets
    /\ \A t \in Threads : threads[t].ret \in CompleteKeySets

\* A thread has returned the static list while another thread is waiting
\* for the answer to GET /jwks that will replace it.
C23_Witness ==
    \E t, u \in Threads :
        /\ t # u
        /\ threads[t].pc = "wait"
        /\ threads[u].returned /\ threads[u].ret = StaticKeys
        /\ jwt_keys = StaticKeys

----------------------------------------------------------------------------
(* Two sessions and one token *)

\* What a verification leaves in the session, the user record apart.
VerifyResult(st) == <<st.is_signed_in, st.claims, st.user_id, st.auth_error>>

\* C24: determinism.  When a token has been presented to a session, and
\* another session is in the state the first one was in before, presenting
\* the same token to that session next, under the same key set and whatever
\* the backend answers, ends in the same is_signed_in, claims, user_id and
\* auth_error as the first session ended in.
C24_Deterministic ==
    [][ \A s, s2 \in Sessions :
          ( /\ last'.op = "set_clerk_session" /\ last'.s = s
            /\ s2 # s /\ SessionOf(s2) = SessionOf(s)
            /\ jwt_keys' = jwt_keys )
          => \A rj, ru \in Responses :
               LET r == SetClerkSessionRun(SessionOf(s2)', ClassState', env,
                                           last'.token, rj, ru)
               IN r.cls.jwt_keys = jwt_keys'
                    => VerifyResult(r.st) = VerifyResult(SessionOf(s)') ]_vars

\* Both sessions were presented the same valid token from the same prior
\* state under the same key set, and hold the same verification result
\* although the user fetch ended differently for them.
C24_Witness ==
    /\ last.op = "set_clerk_session" /\ last.s = "s2"
    /\ last.outcome = "verified" /\ last.raised = NoneS
    /\ VerifyResult(SessionOf("s1")) = VerifyResult(SessionOf("s2"))
    /\ claims["s1"] = ClaimsOf(last.token)
    /\ user["s1"] = NoneV /\ user["s2"] # NoneV

----------------------------------------------------------------------------
(* Properties of ClerkProvider.create and of the API client *)

\* No secret key is configured for the call: none as a prop, none stored by
\* an earlier call and none in CLERK_SECRET_KEY.
NoSecretFor(a) ==
    a.props.secret_key = NoneS /\ secret_key = NoneS
        /\ env.CLERK_SECRET_KEY = NoneS

\* No publishable key is available to the call.
NoPublishableFor(a) ==
    a.props.publishable_key = NoneS /\ a.pk_env = NoneS

C26_SecretNotRendered ==
    (last.op = "create" /\ last.token.props.secret_key # NoneS)
        => /\ secret_key = last.token.props.secret_key
           /\ last.ret # NoneV
                => \A f \in DOMAIN last.ret.props :
                       last.ret.props[f] # last.token.props.secret_key

\* A create call with a secret_key prop has rendered its component.
C26_Witness ==
    /\ last.op = "create" /\ last.token.props.secret_key # NoneS
    /\ last.raised = NoneS /\ last.ret # NoneV
    /\ secret_key = last.token.props.secret_key

\* C27 (as claimed): an answer to GET /jwks whose status is outside
\* 200-299 makes the call raise an HTTP error.
C27_NonSuccessRaises ==
    \A t \in Threads :
        (threads[t].status # NoStatus
           /\ ~(threads[t].status >= 200 /\ threads[t].status <= 299))
            => threads[t].raised = "HTTPError"

\* C28: once the key set is not empty no operation changes it or calls
\* GET /jwks.
C28_KeysStable ==
    [][ jwt_keys # <<>>
          => /\ jwt_keys' = jwt_keys
             /\ ~(\E i \in 1..Len(last'.calls) : last'.calls[i] = "get_jwks")
      ]_vars

\* jwt_public_keys has been read while the cache was filled and a secret
\* key configured: the read made no remote call.
C28_Witness ==
    /\ last.op = "jwt_public_keys" /\ last.again
    /\ secret_key # NoneS /\ jwt_keys # <<>>
    /\ last.calls = <<>> /\ last.raised = NoneS

\* C29 (as claimed): in every state where a session holds a user record,
\* the record is the one of the session's user_id.
C29_UserMatchesUserId ==
    \A s \in Sessions : user[s] # NoneV => user[s].id = user_id[s]

\* C30 (as claimed): a remote call is made by a client that carries the
\* secret key configured at the time.
C30_ClientCarriesSecret ==
    (api_client # NoneV /\ last.calls # <<>>)
        => api_client.secret_key = secret_key

====
